---- MODULE Spec2Model ----
(***************************************************************************)
(* A model of the trend monitor bot (src/main.py): six fetchers, the       *)
(* aggregator update_trending_data, the command handlers and the           *)
(* background loop background_trend_monitor.                               *)
(*                                                                         *)
(* The bot runs on one asyncio event loop: a coroutine runs without        *)
(* interruption from one await to the next.  Every action below is one     *)
(* such stretch of code of one task: the background task, or the handler   *)
(* of the update being processed (the Application of main() processes      *)
(* updates one at a time).                                                 *)
(***************************************************************************)
EXTENDS Integers, Sequences, FiniteSets, TLC

VARIABLES
    trending_cache,    \* the module-level dict of src/main.py:18
    user_preferences,  \* the module-level dict of src/main.py:15, in insertion order
    bg,                \* background_trend_monitor: its position and locals
    h,                 \* the handler in progress: its position, command, user, arguments
    reply,             \* the message the handler in progress is sending
    lastRun,           \* history: what the aggregator run that ended last saw and did
    autoHist,          \* history: each user's last valid /auto command
    sleeps,            \* history: the sleeps of the loop since its last aggregator run ended
    pass,              \* history: the notification pass in progress, or how the last ended
    origin             \* history: the task whose run wrote each key of trending_cache

vars == <<trending_cache, user_preferences, bg, h, reply, lastRun, autoHist, sleeps, pass,
          origin>>

----------------------------------------------------------------------------
(* Bounds and input sets *)

MaxTime == 1

\* datetime.now() of an aggregator run
Times == 1..MaxTime

\* Telegram user ids
Users == {101, 102, 103}

NoTime == 0

Min(a, b) == IF a < b THEN a ELSE b

\* Python's s[a:b] for 0 <= a <= b
Slice(s, a, b) == SubSeq(s, a + 1, Min(b, Len(s)))

Range(s) == {s[i] : i \in 1..Len(s)}

----------------------------------------------------------------------------
(* HTTP: what one request of a fetcher meets.  exc: the request, or reading *)
(* its body, raised; otherwise a status and a body.  A body is given as    *)
(* what the fetcher's pattern or JSON access finds in it, in order.        *)

ExcResp == [exc |-> TRUE, status |-> 0, body |-> <<>>]

Http(st, b) == [exc |-> FALSE, status |-> st, body |-> b]

Ok200(r) == ~r.exc /\ r.status = 200

Sources == {"google_trends", "reddit_trending", "coingecko_trending",
            "youtube_trending", "twitter_trends", "crypto_news"}

nitter_instances == <<"https://nitter.net", "https://nitter.privacydev.net", "https://nitter.poast.org">>

subreddits == <<"cryptocurrency", "solana", "CryptoMoonShots">>

fallback_trends == <<"Bitcoin", "Ethereum", "Solana", "AI Technology", "Cryptocurrency News",
                     "Memecoin", "DeFi", "NFT Market", "Blockchain", "Web3">>

StartsWith(t, p) == Len(t) >= Len(p) /\ SubSeq(t, 1, Len(p)) = p

\* [t for t in titles if len(t) > 10 and not t.startswith('YouTube')]
RECURSIVE FilterTitles(_)
FilterTitles(s) ==
    IF s = <<>> THEN <<>>
    ELSE (IF Len(Head(s)) > 10 /\ ~StartsWith(Head(s), "YouTube") THEN <<Head(s)>> ELSE <<>>)
         \o FilterTitles(Tail(s))

\* A fetcher's outcome: the list it returns or that an exception leaves it, and
\* the requests it issued.
Returned(v, n) == [ret |-> v, raised |-> FALSE, reqs |-> n]

Raised(n) == [ret |-> <<>>, raised |-> TRUE, reqs |-> n]

\* A call of print is named by its line in src/main.py and, inside a for loop, by
\* the pass of the loop (1, 2, 3; 0 outside a loop).  pr is the set of the calls
\* that raise (the write to stdout fails, or stdout cannot encode the text).
PrintRaises(pr, line, k) == <<line, k>> \in pr

\* A fetcher of one request: try: the request, the checks, print (line ok),
\* return val; except Exception: print (line err); return [].  An exception of
\* the request or of the first print is caught; one of the handler's print leaves
\* the fetcher.
OneRequest(r, hit, val, pr, ok, err) ==
    IF r.exc \/ (hit /\ PrintRaises(pr, ok, 0))
    THEN (IF PrintRaises(pr, err, 0) THEN Raised(1) ELSE Returned(<<>>, 1))
    ELSE IF hit THEN Returned(val, 1)
    ELSE Returned(<<>>, 1)

fetch_youtube_trending(r, pr) ==
    OneRequest(r, Ok200(r), Slice(FilterTitles(r.body), 0, 15), pr, 46, 49)

\* Whether instance i answered with a trend: status 200 and a non-empty findall
TwitterAnswers(rs, i) == Ok200(rs[i]) /\ rs[i].body # <<>>

\* The for loop over nitter_instances from instance i on: the trends returned, the
\* number of requests, and the instances requested, in the order of the requests.
\* The inner handler (line 78) catches an exception of the request or of the print
\* of line 76, prints (line 79) and continues; an exception of its print is caught
\* by the outer handler (line 81), which prints (line 82) and goes on to return [];
\* an exception of that print leaves the fetcher.
RECURSIVE TwitterFrom(_, _, _)
TwitterFrom(rs, i, pr) ==
    IF i > Len(nitter_instances)
    THEN [ret |-> <<>>, raised |-> FALSE, reqs |-> 0, tried |-> <<>>]
    ELSE LET hit    == TwitterAnswers(rs, i)
             caught == rs[i].exc \/ (hit /\ PrintRaises(pr, 76, i))
         IN  IF hit /\ ~caught
             THEN [ret |-> Slice(rs[i].body, 0, 10), raised |-> FALSE, reqs |-> 1,
                   tried |-> <<nitter_instances[i]>>]
             ELSE IF caught /\ PrintRaises(pr, 79, i)
             THEN [ret |-> <<>>, raised |-> PrintRaises(pr, 82, 0), reqs |-> 1,
                   tried |-> <<nitter_instances[i]>>]
             ELSE LET rest == TwitterFrom(rs, i + 1, pr)
                  IN  [ret    |-> rest.ret,
                       raised |-> rest.raised,
                       reqs   |-> 1 + rest.reqs,
                       tried  |-> <<nitter_instances[i]>> \o rest.tried]

TwitterAllInstances(rs, pr) ==
    LET hits == {i \in 1..Len(nitter_instances) : TwitterAnswers(rs, i)}
        last == CHOOSE i \in hits : \A j \in hits : j <= i
    IN  [ret    |-> IF hits = {} THEN <<>> ELSE Slice(rs[last].body, 0, 10),
         raised |-> FALSE,
         reqs   |-> Len(nitter_instances),
         tried  |-> nitter_instances]

fetch_twitter_alternative(rs, pr) == TwitterFrom(rs, 1, pr)

fetch_crypto_news(r, pr) ==
    OneRequest(r, Ok200(r) /\ Len(r.body) > 1, Slice(r.body, 1, 11), pr, 100, 103)

\* fetch_google_trends: the try block returns matches[1:11] after its print (line
\* 123); its handler catches an exception of the request or of that print and
\* prints (line 126); then, below the block and outside any try, the print of line
\* 135 and fallback_trends[:10].
fetch_google_trends(r, pr) ==
    LET hit    == Ok200(r) /\ Len(r.body) > 1
        caught == r.exc \/ (hit /\ PrintRaises(pr, 123, 0))
    IN  IF hit /\ ~caught THEN Returned(Slice(r.body, 1, 11), 1)
        ELSE IF caught /\ PrintRaises(pr, 126, 0) THEN Raised(1)
        ELSE IF PrintRaises(pr, 135, 0) THEN Raised(1)
        ELSE Returned(Slice(fallback_trends, 0, 10), 1)

\* list.sort(key=score, reverse=True): stable, highest score first
RECURSIVE InsertByScore(_, _)
InsertByScore(sorted, p) ==
    IF sorted = <<>> THEN <<p>>
    ELSE IF Head(sorted).score >= p.score
         THEN <<Head(sorted)>> \o InsertByScore(Tail(sorted), p)
         ELSE <<p>> \o sorted

RECURSIVE SortByScore(_)
SortByScore(s) ==
    IF s = <<>> THEN <<>>
    ELSE InsertByScore(SortByScore(SubSeq(s, 1, Len(s) - 1)), s[Len(s)])

\* The for loop over subreddits from subreddit i on: the posts collected, the
\* number of requests, and whether an exception left the loop: that of the inner
\* handler's print (line 169) after a request raised.
RECURSIVE RedditLoop(_, _, _)
RedditLoop(rs, i, pr) ==
    IF i > Len(subreddits) THEN [posts |-> <<>>, left |-> FALSE, reqs |-> 0]
    ELSE IF rs[i].exc /\ PrintRaises(pr, 169, i) THEN [posts |-> <<>>, left |-> TRUE, reqs |-> 1]
    ELSE LET rest == RedditLoop(rs, i + 1, pr)
             mine == IF Ok200(rs[i])
                     THEN [k \in 1..Len(rs[i].body) |->
                              [title |-> rs[i].body[k].title, score |-> rs[i].body[k].score,
                               subreddit |-> subreddits[i]]]
                     ELSE <<>>
         IN  [posts |-> mine \o rest.posts, left |-> rest.left, reqs |-> 1 + rest.reqs]

\* fetch_reddit_trending: the loop, the sort, the print of line 174 and
\* all_trends[:10]; the outer handler (line 177) catches an exception that left
\* the loop or that of the print of line 174, prints (line 178) and goes on to
\* return []; an exception of its print leaves the fetcher.
fetch_reddit_trending(rs, pr) ==
    LET l == RedditLoop(rs, 1, pr)
    IN  IF l.left \/ PrintRaises(pr, 174, 0)
        THEN (IF PrintRaises(pr, 178, 0) THEN Raised(l.reqs) ELSE Returned(<<>>, l.reqs))
        ELSE Returned(Slice(SortByScore(l.posts), 0, 10), l.reqs)

fetch_coingecko_trending(r, pr) ==
    OneRequest(r, Ok200(r), Slice(r.body, 0, 10), pr, 204, 207)

\* The fetcher of each source, on what the web answers during one run and on
\* the calls of print that raise during it.
Fetch(s, w) ==
    LET pr == w.print_raises
    IN  CASE s = "google_trends"      -> fetch_google_trends(w.google, pr)
          [] s = "reddit_trending"    -> fetch_reddit_trending(w.reddit, pr)
          [] s = "coingecko_trending" -> fetch_coingecko_trending(w.coingecko, pr)
          [] s = "youtube_trending"   -> fetch_youtube_trending(w.youtube, pr)
          [] s = "twitter_trends"     -> fetch_twitter_alternative(w.twitter, pr)
          [] s = "crypto_news"        -> fetch_crypto_news(w.news, pr)

\* asyncio.gather(..., return_exceptions=True): each fetcher's return value, or the
\* exception that left it.
GatherResult(s, w) ==
    LET f == Fetch(s, w)
    IN  [exc |-> f.raised, val |-> f.ret]

\* results[i] if not isinstance(results[i], Exception) else []
Stored(res) == IF res.exc THEN <<>> ELSE res.val

EmptyCache ==
    [google_trends |-> <<>>, reddit_trending |-> <<>>, coingecko_trending |-> <<>>,
     youtube_trending |-> <<>>, twitter_trends |-> <<>>, crypto_news |-> <<>>,
     last_update |-> NoTime]

\* The cache after lines 225-238 of a run that met w and read the clock at t.
CacheAfter(w, t) ==
    [google_trends      |-> Stored(GatherResult("google_trends", w)),
     reddit_trending    |-> Stored(GatherResult("reddit_trending", w)),
     coingecko_trending |-> Stored(GatherResult("coingecko_trending", w)),
     youtube_trending   |-> Stored(GatherResult("youtube_trending", w)),
     twitter_trends     |-> Stored(GatherResult("twitter_trends", w)),
     crypto_news        |-> Stored(GatherResult("crypto_news", w)),
     last_update        |-> t]

NoRun == [ran |-> FALSE]

\* Whether an exception leaves a run that met w after its writes: that of the
\* print of line 241, which no try encloses.
RunLeft(w) == PrintRaises(w.print_raises, 241, 0)

\* History of a run: who ran it, what the web answered, whether an exception left
\* the run, per source what the fetcher returned, whether an exception left it and
\* how many requests it issued, and the mirror instances the Twitter fetcher
\* requested, in order.
RunRecord(who, w) ==
    LET f == [s \in Sources |-> Fetch(s, w)]
    IN  [ran  |-> TRUE,
         by   |-> who,
         web  |-> w,
         left |-> RunLeft(w),
         ret  |-> [s \in Sources |-> f[s].ret],
         reqs |-> [s \in Sources |-> f[s].reqs],
         raised |-> [s \in Sources |-> f[s].raised],
         tried |-> f["twitter_trends"].tried]

CacheKeys == Sources \cup {"last_update"}

\* No run has written the cache.
NoOrigin == [k \in CacheKeys |-> "none"]

\* Whether the aggregator run of a task is in flight: its gather is awaited.  The
\* background task awaits it at lines 573 and 580, a handler inside its command.
InFlight(who) ==
    IF who = "bg" THEN bg.pc \in {"init_update", "updating"} ELSE h.pc = "fetching"

\* The writes of a run of who to the keys ks
OriginAfter(who, ks) == [k \in CacheKeys |-> IF k \in ks THEN who ELSE origin[k]]

UpdateYieldsBeforeLastUpdate(who, w, t) ==
    /\ trending_cache' = [CacheAfter(w, t) EXCEPT !.last_update = trending_cache.last_update]
    /\ lastRun' = RunRecord(who, w)
    /\ origin' = OriginAfter(who, Sources)

\* update_trending_data from the return of gather to its end, lines 225-241: one
\* stretch without an await, in which the seven keys are assigned; the print of
\* line 241 follows the assignments, and whether it raises is RunLeft(w).
update_trending_data(who, w, t) ==
    /\ trending_cache' = CacheAfter(w, t)
    /\ lastRun' = RunRecord(who, w)
    /\ origin' = OriginAfter(who, CacheKeys)

----------------------------------------------------------------------------
(* What the web may answer *)

Web(g, r, c, y, t, n, esc) ==
    [google |-> g, reddit |-> r, coingecko |-> c, youtube |-> y, twitter |-> t,
     news |-> n, print_raises |-> esc]

FeedA == <<"Daily Search Trends", "Bitcoin", "Ethereum", "Solana", "AI Technology", "Pepe",
           "Dogecoin", "Shiba Inu", "Taylor Swift", "World Cup", "Olympics", "Eclipse">>

FeedB == <<"Daily Search Trends", "Bitcoin", "Ethereum", "Solana", "AI Technology",
           "Cryptocurrency News", "Pepe">>

Posts1 == <<[title |-> "Solana  flips Ethereum in daily volume", score |-> 120],
            [title |-> "Daily Discussion", score |-> 40],
            [title |-> "", score |-> 7],
            [title |-> "Bitcoin ETF inflows", score |-> 300],
            [title |-> "Gas fees", score |-> 40]>>

Posts2 == <<[title |-> "Bonk season", score |-> 300],
            [title |-> "Validator outage", score |-> 15],
            [title |-> "Jupiter airdrop", score |-> 120],
            [title |-> "Phantom update", score |-> 2],
            [title |-> "Staking yields", score |-> 9]>>

Posts3 == <<[title |-> " 100x gem ", score |-> 1],
            [title |-> "Presale live now", score |-> 0]>>

\* Titles with whitespace other than the space: U+00A0 and U+000B between the
\* words of the first; the second nothing but whitespace (U+001C, U+0085, a space,
\* U+1680).
Posts4 == <<[title |-> "Pepe cointo the moon", score |-> 500],
            [title |-> "Gas fees", score |-> 40]>>

Posts5 == <<[title |-> "  ", score |-> 9]>>

Coins(n) == [i \in 1..n |-> [name |-> "Coin", symbol |-> "cn", market_cap_rank |-> i]]

YtTitles == <<"YouTube Music Trending", "Shorts", "Bitcoin hits a new all time high",
              "Solana memecoin season explained">>

TwA == <<"#Bitcoin", "#Solana", "Pepe">>

TwB == <<"#WorldCup">>

TwC == <<"t1", "t2", "t3", "t4", "t5", "t6", "t7", "t8", "t9", "t10", "t11", "t12">>

NewsFeed == <<"Cointelegraph.com News", "SEC approves spot ETF", "Solana outage resolved">>

Down3 == <<ExcResp, ExcResp, ExcResp>>

\* The print of line 241 raising, and no other
EndPrintRaises == {<<241, 0>>}

\* The background loop's model with the feed changing by one term between runs:
\* only the Google feed answers, with the fallback terms and one more; a run whose
\* last print raises.
WebsNotify ==
    {Web(g, Down3, ExcResp, ExcResp, Down3, ExcResp, {}) :
        g \in {Http(500, <<>>), Http(200, FeedB)}}
    \cup {Web(Http(200, FeedB), Down3, ExcResp, ExcResp, Down3, ExcResp, EndPrintRaises)}

\* The background loop's model with the feed changing by six terms between runs:
\* only the Google feed answers, with six terms that the fallback list lacks; a run
\* whose last print raises.
WebsLoop ==
    {Web(g, Down3, ExcResp, ExcResp, Down3, ExcResp, {}) :
        g \in {Http(500, <<>>), Http(200, FeedA)}}
    \cup {Web(Http(200, FeedA), Down3, ExcResp, ExcResp, Down3, ExcResp, EndPrintRaises)}

RedditUp == <<Http(200, Posts1), ExcResp, Http(404, <<>>)>>

RedditOdd == <<Http(200, Posts4), ExcResp, Http(404, <<>>)>>

RedditBlank == <<ExcResp, Http(200, Posts5), ExcResp>>

TwitterUp == <<Http(200, TwA), ExcResp, ExcResp>>

\* The command handlers' model: one Google term and every other source down; every
\* source up; the Google fetcher raising (its request and its handler's print
\* raise) with CoinGecko and the news up and the rest down; Google, Reddit and
\* YouTube up, the top Reddit title holding U+00A0 and U+000B; Google, Twitter and
\* Reddit up, the Reddit title nothing but whitespace; the first again with the
\* last print raising.
WebsCmd ==
    {Web(Http(200, <<"Daily Search Trends", "Bitcoin">>), Down3, ExcResp, Http(503, <<>>), Down3,
         ExcResp, {}),
     Web(Http(200, FeedB), RedditUp, Http(200, Coins(2)), Http(200, YtTitles), TwitterUp,
         Http(200, NewsFeed), {}),
     Web(ExcResp, Down3, Http(200, Coins(2)), Http(503, <<>>), Down3, Http(200, NewsFeed),
         {<<126, 0>>}),
     Web(Http(200, FeedB), RedditOdd, ExcResp, Http(200, YtTitles), Down3, ExcResp, {}),
     Web(Http(200, <<"Daily Search Trends", "Bitcoin">>), RedditBlank, ExcResp, Http(503, <<>>),
         TwitterUp, ExcResp, {}),
     Web(Http(200, <<"Daily Search Trends", "Bitcoin">>), Down3, ExcResp, Http(503, <<>>), Down3,
         ExcResp, EndPrintRaises)}

\* The calls of print of each fetcher
GooglePrints == {<<123, 0>>, <<126, 0>>, <<135, 0>>}

RedditPrints == {<<169, 1>>, <<169, 2>>, <<169, 3>>, <<174, 0>>, <<178, 0>>}

CoinGeckoPrints == {<<204, 0>>, <<207, 0>>}

YoutubePrints == {<<46, 0>>, <<49, 0>>}

TwitterPrints == {<<76, 1>>, <<76, 2>>, <<76, 3>>, <<79, 1>>, <<79, 2>>, <<79, 3>>, <<82, 0>>}

NewsPrints == {<<100, 0>>, <<103, 0>>}

\* Every source down and every print printing
WebDown == Web(ExcResp, Down3, ExcResp, ExcResp, Down3, ExcResp, {})

\* Every outcome of the requests of one fetcher with any of its prints raising, the
\* other sources down
WebsGoogle ==
    {[WebDown EXCEPT !.google = g, !.print_raises = pr] :
        g \in {ExcResp, Http(500, <<>>), Http(200, <<>>), Http(200, <<"Daily Search Trends">>),
               Http(200, <<"Daily Search Trends", "Bitcoin">>), Http(200, FeedA)},
        pr \in SUBSET GooglePrints}

WebsReddit ==
    {[WebDown EXCEPT !.reddit = <<r1, r2, r3>>, !.print_raises = pr] :
        r1 \in {ExcResp, Http(429, <<>>), Http(200, Posts1)},
        r2 \in {ExcResp, Http(200, <<>>), Http(200, Posts2)},
        r3 \in {ExcResp, Http(404, <<>>), Http(200, Posts3)},
        pr \in SUBSET RedditPrints}

WebsCoinGecko ==
    {[WebDown EXCEPT !.coingecko = c, !.print_raises = pr] :
        c \in {ExcResp, Http(500, <<>>), Http(200, Coins(2)), Http(200, Coins(11))},
        pr \in SUBSET CoinGeckoPrints}

WebsYoutube ==
    {[WebDown EXCEPT !.youtube = y, !.print_raises = pr] :
        y \in {ExcResp, Http(503, <<>>), Http(200, YtTitles)},
        pr \in SUBSET YoutubePrints}

WebsTwitter ==
    {[WebDown EXCEPT !.twitter = <<t1, t2, t3>>, !.print_raises = pr] :
        t1 \in {ExcResp, Http(500, <<>>), Http(200, TwA)},
        t2 \in {ExcResp, Http(200, <<>>), Http(200, TwB)},
        t3 \in {ExcResp, Http(404, <<>>), Http(200, TwC)},
        pr \in SUBSET TwitterPrints}

WebsNews ==
    {[WebDown EXCEPT !.news = n, !.print_raises = pr] :
        n \in {ExcResp, Http(200, <<"Cointelegraph.com News">>), Http(200, NewsFeed)},
        pr \in SUBSET NewsPrints}

\* Each fetcher returning its source's entries, returning after a failed request, or
\* left by an exception (its request and its handler's print raise), in every
\* combination over the six, with the print of line 241 printing or raising
WebsTogether ==
    {Web(g[1], r[1], c[1], y[1], t[1], n[1],
         g[2] \cup r[2] \cup c[2] \cup y[2] \cup t[2] \cup n[2] \cup e) :
        g \in {<<Http(200, FeedA), {}>>, <<Http(500, <<>>), {}>>, <<ExcResp, {<<126, 0>>}>>},
        r \in {<<<<Http(200, Posts1), Http(200, Posts2), Http(200, Posts3)>>, {}>>,
               <<Down3, {}>>, <<Down3, {<<169, 1>>, <<178, 0>>}>>},
        c \in {<<Http(200, Coins(11)), {}>>, <<Http(500, <<>>), {}>>, <<ExcResp, {<<207, 0>>}>>},
        y \in {<<Http(200, YtTitles), {}>>, <<Http(503, <<>>), {}>>, <<ExcResp, {<<49, 0>>}>>},
        t \in {<<<<ExcResp, Http(200, TwB), ExcResp>>, {}>>, <<Down3, {}>>,
               <<Down3, {<<79, 1>>, <<82, 0>>}>>},
        n \in {<<Http(200, NewsFeed), {}>>, <<ExcResp, {}>>, <<ExcResp, {<<103, 0>>}>>},
        e \in {{}, EndPrintRaises}}

\* The aggregator's model
WebsAgg ==
    WebsTogether \cup WebsGoogle \cup WebsReddit \cup WebsCoinGecko \cup WebsYoutube
    \cup WebsTwitter \cup WebsNews

----------------------------------------------------------------------------
(* user_preferences: a dict, kept as its items in insertion order *)

HasUser(prefs, u) == \E i \in 1..Len(prefs) : prefs[i].user = u

\* prefs.get('auto_notify', False) of user u, False for a user without an entry
AutoOn(prefs, u) == \E i \in 1..Len(prefs) : prefs[i].user = u /\ prefs[i].auto_notify

SetAuto(prefs, u, status) ==
    IF HasUser(prefs, u)
    THEN [i \in 1..Len(prefs) |->
             IF prefs[i].user = u THEN [prefs[i] EXCEPT !.auto_notify = status] ELSE prefs[i]]
    ELSE Append(prefs, [user |-> u, auto_notify |-> status])

----------------------------------------------------------------------------
(* background_trend_monitor *)

BgIdle(pc) == [pc |-> pc, old_trends |-> {}, new_trends |-> {}, idx |-> 0, used |-> 0, msg |-> {}]

NoPass == [active |-> FALSE, opted |-> {}, sent |-> {}, raised |-> FALSE]

FreshTrendsReversed(old, new) == old \ new

\* fresh_trends = new_trends - old_trends
FreshTrends(old, new) == new \ old

\* list(fresh_trends)[:5]: the first five of a set in its iteration order, which is
\* any order
FirstFive(fresh) ==
    {m \in SUBSET fresh : Cardinality(m) = Min(5, Cardinality(fresh))}

\* The terms of the message built for a user: the same for every user of a pass,
\* the set being iterated in the same order each time.
MessageTerms(b) ==
    IF b.msg # {} THEN {b.msg}
    ELSE FirstFive(FreshTrends(b.old_trends, b.new_trends))

\* A loop that sends to every item, whatever its preference.
NextToNotifyAnyone(prefs, i) == IF i > Len(prefs) THEN 0 ELSE i

\* The for loop over user_preferences.items() from item i on, up to its next await:
\* the index of the next user to send to, 0 when the items are exhausted.
RECURSIVE NextToNotify(_, _)
NextToNotify(prefs, i) ==
    IF i > Len(prefs) THEN 0
    ELSE IF prefs[i].auto_notify THEN i
    ELSE NextToNotify(prefs, i + 1)

\* The except branch of the loop (lines 604-606): print, then sleep 300 seconds.
\* An exception of the print leaves the loop and ends the task.
OnIterationError(print_raises) ==
    IF print_raises THEN BgIdle("ended_loop") ELSE BgIdle("sleep300")

\* The loop going on after an await of the notification pass (or entering the pass):
\* the dict iterator raises RuntimeError when the dict's size is no longer the size
\* it had when the for loop began.
ContinuePass(b, i) ==
    IF Len(user_preferences) # b.used
    THEN /\ \E p605 \in BOOLEAN : bg' = OnIterationError(p605)
         /\ pass' = [NoPass EXCEPT !.raised = TRUE]
    ELSE LET j == NextToNotify(user_preferences, i)
         IN  IF j = 0
             THEN /\ bg' = BgIdle("sleep1800")
                  /\ pass' = NoPass
             ELSE /\ \E m \in MessageTerms(b) :
                        bg' = [b EXCEPT !.pc = "sending", !.idx = j, !.msg = m]
                  /\ pass' = [active |-> TRUE,
                              opted  |-> IF pass.active THEN pass.opted
                                         ELSE {u \in Users : AutoOn(user_preferences, u)},
                              sent   |-> (IF pass.active THEN pass.sent ELSE {})
                                         \cup {user_preferences[j].user},
                              raised |-> FALSE]

\* The task starts: print (line 570), then the initial update (line 573) up to
\* its gather, which begins with a print (line 212).  No try encloses either call:
\* an exception of one ends the task before the loop.
BgStart ==
    /\ bg.pc = "start"
    /\ \E p570, p212 \in BOOLEAN :
        bg' = IF p570 \/ p212 THEN BgIdle("ended_start") ELSE BgIdle("init_update")
    /\ UNCHANGED <<trending_cache, origin, user_preferences, h, reply, lastRun, autoHist, sleeps,
                   pass>>

\* The initial update ends: the loop is entered and sleeps, or the exception that
\* left the update ends the task.
BgInitialUpdateDone(W) ==
    /\ bg.pc = "init_update"
    /\ UNCHANGED <<user_preferences, h, reply, autoHist, pass>>
    /\ sleeps' = <<>>
    /\ \E w \in W, t \in Times :
        /\ update_trending_data("bg", w, t)
        /\ bg' = IF RunLeft(w) THEN BgIdle("ended_start") ELSE BgIdle("sleep1800")

\* sleep(1800) ends: old_trends is read and the refresh begins with its print (line
\* 212); an exception of the print is one of the iteration.
BgWake ==
    /\ bg.pc = "sleep1800"
    /\ \E p212 \in BOOLEAN :
        IF p212
        THEN /\ \E p605 \in BOOLEAN : bg' = OnIterationError(p605)
             /\ sleeps' = <<>>
        ELSE /\ bg' = [BgIdle("updating") EXCEPT
                          !.old_trends = Range(trending_cache.google_trends)]
             /\ sleeps' = Append(sleeps, 1800)
    /\ UNCHANGED <<trending_cache, origin, user_preferences, h, reply, lastRun, autoHist, pass>>

\* The refresh ends: new_trends, the diff, and the notification pass up to its
\* first send; or the exception that left the refresh is one of the iteration.
BgUpdateDone(W) ==
    /\ bg.pc = "updating"
    /\ UNCHANGED <<user_preferences, h, reply, autoHist>>
    /\ sleeps' = <<>>
    /\ \E w \in W, t \in Times :
        /\ update_trending_data("bg", w, t)
        /\ IF RunLeft(w)
           THEN /\ \E p605 \in BOOLEAN : bg' = OnIterationError(p605)
                /\ pass' = pass
           ELSE LET new   == Range(trending_cache'.google_trends)
                    fresh == FreshTrends(bg.old_trends, new)
                IN  IF fresh = {}
                    THEN bg' = BgIdle("sleep1800") /\ pass' = NoPass
                    ELSE ContinuePass([bg EXCEPT !.new_trends = new,
                                                 !.used = Len(user_preferences)], 1)

\* send_message ends.  Delivered, or raising with the inner handler's print (line
\* 602) done, the for loop asks its iterator for the next item; an exception of
\* that print is one of the iteration.
BgSendDone ==
    /\ bg.pc = "sending"
    /\ \/ ContinuePass(bg, bg.idx + 1)
       \/ /\ \E p605 \in BOOLEAN : bg' = OnIterationError(p605)
          /\ pass' = [NoPass EXCEPT !.raised = TRUE]
    /\ UNCHANGED <<trending_cache, origin, user_preferences, h, reply, lastRun, autoHist, sleeps>>

\* sleep(300) of the except branch ends: the loop's next iteration sleeps 1800.
BgErrorSleepDone ==
    /\ bg.pc = "sleep300"
    /\ bg' = BgIdle("sleep1800")
    /\ sleeps' = Append(sleeps, 300)
    /\ UNCHANGED <<trending_cache, origin, user_preferences, h, reply, lastRun, autoHist, pass>>

----------------------------------------------------------------------------
(* Strings *)

\* The characters c with c.lower() the letter l, for the letters of 'on' and
\* 'off': the letter and its capital; no other character of Unicode lower-cases
\* to o, n or f, and every character lower-cases to at least one character.
LowersTo(l) ==
    CASE l = "o" -> {"o", "O"}
      [] l = "n" -> {"n", "N"}
      [] l = "f" -> {"f", "F"}

\* s.lower() == word, for word one of 'on' and 'off'
LowerIs(s, word) ==
    /\ Len(s) = Len(word)
    /\ \A i \in 1..Len(word) : SubSeq(s, i, i) \in LowersTo(SubSeq(word, i, i))

\* The whitespace characters str.split() separates words at (those of
\* str.isspace()) that a string can hold here: space, tab, line feed, carriage
\* return, form feed, U+000B, U+001C to U+001F, U+0085, U+00A0 and U+1680.  The
\* others (U+2000 to U+200A, U+2028, U+2029, U+202F, U+205F, U+3000) cannot be
\* written in a string of this module, so no title here holds one.
Whitespace ==
    {" ", "\t", "\n", "\r", "\f",
     "", "", "", "", "", "", " ", " "}

\* str.split(): the words between runs of whitespace; cur is the word being read
RECURSIVE SplitWords(_, _)
SplitWords(s, cur) ==
    IF Len(s) = 0 THEN (IF cur = "" THEN <<>> ELSE <<cur>>)
    ELSE IF SubSeq(s, 1, 1) \in Whitespace
         THEN (IF cur = "" THEN <<>> ELSE <<cur>>) \o SplitWords(SubSeq(s, 2, Len(s)), "")
         ELSE SplitWords(SubSeq(s, 2, Len(s)), cur \o SubSeq(s, 1, 1))

\* ' '.join(words)
RECURSIVE Join(_)
Join(words) ==
    IF words = <<>> THEN ""
    ELSE IF Len(words) = 1 THEN words[1]
    ELSE words[1] \o " " \o Join(Tail(words))

----------------------------------------------------------------------------
(* Command handlers.  A reply is given by its kind and the entries it lists. *)

NoReply == [kind |-> "none", items |-> <<>>]

Idle == [pc |-> "idle", cmd |-> "none", user |-> 0, args |-> <<>>, seenRun |-> FALSE,
         fetched |-> FALSE]

ReadCmds == {"trends", "reddit", "coins", "twitter", "youtube", "news", "all", "generate"}

\* What /auto is followed by in the model of the opting in and out
ArgsNotify == {<<"on">>, <<"off">>, <<>>}

\* The users of the two-user models of the background loop
UsersLoop == {101, 102}

\* The user of the model of the reading commands
UsersCmd == {101}

\* What /auto is followed by in the models without opting out
ArgsCmd == {<<"on">>, <<>>}

\* What /auto may be followed by
ArgLists == {<<>>, <<"on">>, <<"off">>, <<"ON">>, <<"Off">>, <<"oN">>, <<"on", "off">>,
             <<"maybe">>, <<"of">>, <<"off", "now">>, <<"ÖN">>}

NeedsFetchBeforeFirstRun(cmd, c) == c.last_update = NoTime

\* The guard each reading handler opens with: the lists whose emptiness sends it to
\* update_trending_data.
NeedsFetch(cmd, c) ==
    CASE cmd = "trends"   -> c.google_trends = <<>>
      [] cmd = "reddit"   -> c.reddit_trending = <<>>
      [] cmd = "coins"    -> c.coingecko_trending = <<>>
      [] cmd = "twitter"  -> c.twitter_trends = <<>>
      [] cmd = "youtube"  -> c.youtube_trending = <<>>
      [] cmd = "news"     -> c.crypto_news = <<>>
      [] cmd = "all"      -> /\ c.google_trends = <<>> /\ c.reddit_trending = <<>>
                             /\ c.coingecko_trending = <<>> /\ c.youtube_trending = <<>>
                             /\ c.twitter_trends = <<>> /\ c.crypto_news = <<>>
      [] cmd = "generate" -> /\ c.google_trends = <<>> /\ c.reddit_trending = <<>>
                             /\ c.youtube_trending = <<>> /\ c.twitter_trends = <<>>

Listing(lst, n) ==
    IF lst = <<>> THEN [kind |-> "unavailable", items |-> <<>>]
    ELSE [kind |-> "data", items |-> Slice(lst, 0, n)]

show_trends(c) == Listing(c.google_trends, 10)

show_reddit(c) == Listing(c.reddit_trending, 5)

show_coins(c) == Listing(c.coingecko_trending, 10)

show_twitter(c) == Listing(c.twitter_trends, 10)

show_youtube(c) == Listing(c.youtube_trending, 10)

show_news(c) == Listing(c.crypto_news, 8)

Section(name, lst, n) ==
    IF lst = <<>> THEN <<>> ELSE <<[source |-> name, items |-> Slice(lst, 0, n)]>>

show_all_trends(c) ==
    [kind  |-> "data",
     items |-> Section("Twitter", c.twitter_trends, 3) \o Section("YouTube", c.youtube_trending, 1)
               \o Section("Google", c.google_trends, 3) \o Section("Reddit", c.reddit_trending, 1)
               \o Section("Coins", c.coingecko_trending, 3) \o Section("News", c.crypto_news, 1)]

\* generate_coin_concept, without the name, ticker and description that
\* random.choice picks for the trend
Concepts(lst, n, src) ==
    [i \in 1..Min(n, Len(lst)) |-> [trend |-> lst[i], source |-> src]]

RedditTrendText(post) == Join(Slice(SplitWords(post.title, ""), 0, 3))

RedditConcepts(posts, n) ==
    [i \in 1..Min(n, Len(posts)) |-> [trend |-> RedditTrendText(posts[i]), source |-> "Reddit"]]

GenerateConceptsGoogleFirst(c) ==
    Concepts(c.google_trends, 3, "Google") \o Concepts(c.twitter_trends, 2, "Twitter")
    \o Concepts(c.youtube_trending, 2, "YouTube") \o RedditConcepts(c.reddit_trending, 1)

\* The concepts list of generate_ideas (lines 490-508)
GenerateConcepts(c) ==
    Concepts(c.twitter_trends, 2, "Twitter") \o Concepts(c.youtube_trending, 2, "YouTube")
    \o Concepts(c.google_trends, 2, "Google") \o RedditConcepts(c.reddit_trending, 1)

\* generate_ideas from line 490 on
generate_ideas(c) ==
    LET concepts == GenerateConcepts(c)
    IN  IF concepts = <<>> THEN [kind |-> "no_trends", items |-> <<>>]
        ELSE [kind |-> "concepts", items |-> Slice(concepts, 0, 7)]

\* What a reading handler other than /generate replies from the cache
FinalReply(cmd, c) ==
    CASE cmd = "trends"  -> show_trends(c)
      [] cmd = "reddit"  -> show_reddit(c)
      [] cmd = "coins"   -> show_coins(c)
      [] cmd = "twitter" -> show_twitter(c)
      [] cmd = "youtube" -> show_youtube(c)
      [] cmd = "news"    -> show_news(c)
      [] cmd = "all"     -> show_all_trends(c)

ValidAutoArgsExact(args) == Len(args) = 1 /\ args[1] \in {"on", "off"}

\* not (len(context.args) != 1 or context.args[0].lower() not in ['on', 'off'])
ValidAutoArgs(args) == Len(args) = 1 /\ (LowerIs(args[1], "on") \/ LowerIs(args[1], "off"))

\* toggle_auto: its effect on user_preferences and its reply.  The histories: the
\* user's last valid /auto, and a user who turns the notifications off during a
\* notification pass is no longer one the pass owes a message.
toggle_auto(u, args) ==
    IF ~ValidAutoArgs(args)
    THEN /\ reply' = [kind |-> "usage", items |-> <<>>]
         /\ UNCHANGED <<user_preferences, autoHist, pass>>
    ELSE LET status == LowerIs(args[1], "on")
         IN  /\ user_preferences' = SetAuto(user_preferences, u, status)
             /\ reply' = [kind |-> IF status THEN "enabled" ELSE "disabled", items |-> <<>>]
             /\ autoHist' = [autoHist EXCEPT ![u] = IF status THEN "on" ELSE "off"]
             /\ pass' = IF status THEN pass ELSE [pass EXCEPT !.opted = @ \ {u}]

\* /auto: toggle_auto up to its reply
AutoCmd(U, A) ==
    /\ h.pc = "idle"
    /\ \E u \in U, args \in A :
        /\ toggle_auto(u, args)
        /\ h' = [Idle EXCEPT !.pc = "replying", !.cmd = "auto", !.user = u, !.args = args]
    /\ UNCHANGED <<trending_cache, origin, bg, lastRun, sleeps>>

\* /start and /help: the welcome message
\* The commands whose handler is start (lines 617-618)
StartCmds == {"start", "help"}

StartCmd ==
    /\ h.pc = "idle"
    /\ \E c \in StartCmds : h' = [Idle EXCEPT !.pc = "replying", !.cmd = c]
    /\ reply' = [kind |-> "welcome", items |-> <<>>]
    /\ UNCHANGED <<trending_cache, origin, user_preferences, bg, lastRun, autoHist, sleeps, pass>>

\* /refresh up to its first reply
RefreshCmd ==
    /\ h.pc = "idle"
    /\ h' = [Idle EXCEPT !.pc = "notice", !.cmd = "refresh", !.seenRun = lastRun.ran]
    /\ reply' = [kind |-> "refreshing", items |-> <<>>]
    /\ UNCHANGED <<trending_cache, origin, user_preferences, bg, lastRun, autoHist, sleeps, pass>>

\* A reading command up to its first reply: the notice of a fetch when its lists
\* are empty, else its answer from the cache (/generate: its second notice).
ReadCmdBegin(cmds) ==
    /\ h.pc = "idle"
    /\ \E cmd \in cmds :
        LET me == [Idle EXCEPT !.cmd = cmd, !.seenRun = lastRun.ran]
        IN  IF NeedsFetch(cmd, trending_cache)
            THEN /\ h' = [me EXCEPT !.pc = "notice"]
                 /\ reply' = [kind |-> "fetching", items |-> <<>>]
            ELSE IF cmd = "generate"
            THEN /\ h' = [me EXCEPT !.pc = "gen_notice"]
                 /\ reply' = [kind |-> "generating", items |-> <<>>]
            ELSE /\ h' = [me EXCEPT !.pc = "replying"]
                 /\ reply' = FinalReply(cmd, trending_cache)
    /\ UNCHANGED <<trending_cache, origin, user_preferences, bg, lastRun, autoHist, sleeps, pass>>

\* The notice is sent: update_trending_data begins with its print (line 212), and
\* its gather is in flight; an exception of the print leaves the handler.
CmdNoticeSent ==
    /\ h.pc = "notice"
    /\ \E p212 \in BOOLEAN :
        h' = IF p212 THEN Idle ELSE [h EXCEPT !.pc = "fetching", !.fetched = TRUE]
    /\ reply' = NoReply
    /\ UNCHANGED <<trending_cache, origin, user_preferences, bg, lastRun, autoHist, sleeps, pass>>

\* The handler's update ends, and the handler goes on to its next reply; an
\* exception that left the update leaves the handler, without that reply.
CmdFetchDone(W) ==
    /\ h.pc = "fetching"
    /\ \E w \in W, t \in Times :
        /\ update_trending_data("cmd", w, t)
        /\ IF RunLeft(w)
           THEN h' = Idle /\ reply' = NoReply
           ELSE IF h.cmd = "refresh"
           THEN h' = [h EXCEPT !.pc = "replying"] /\ reply' = [kind |-> "refreshed", items |-> <<>>]
           ELSE IF h.cmd = "generate"
           THEN h' = [h EXCEPT !.pc = "gen_notice"] /\ reply' = [kind |-> "generating", items |-> <<>>]
           ELSE h' = [h EXCEPT !.pc = "replying"] /\ reply' = FinalReply(h.cmd, trending_cache')
    /\ UNCHANGED <<user_preferences, bg, autoHist, sleeps, pass>>

\* /generate after its "Generating" notice: the concepts, from the cache as it is now
GenNoticeSent ==
    /\ h.pc = "gen_notice"
    /\ h' = [h EXCEPT !.pc = "replying"]
    /\ reply' = generate_ideas(trending_cache)
    /\ UNCHANGED <<trending_cache, origin, user_preferences, bg, lastRun, autoHist, sleeps, pass>>

\* The handler's last reply is sent: the handler returns.
CmdReplied ==
    /\ h.pc = "replying"
    /\ h' = Idle
    /\ reply' = NoReply
    /\ UNCHANGED <<trending_cache, origin, user_preferences, bg, lastRun, autoHist, sleeps, pass>>

\* reply_text raises: the handler is left, the Application logs the error.
CmdReplyRaises ==
    /\ h.pc \in {"notice", "gen_notice", "replying"}
    /\ h' = Idle
    /\ reply' = NoReply
    /\ UNCHANGED <<trending_cache, origin, user_preferences, bg, lastRun, autoHist, sleeps, pass>>

----------------------------------------------------------------------------
(* Specifications *)

Init ==
    /\ trending_cache = EmptyCache
    /\ user_preferences = <<>>
    /\ bg = BgIdle("start")
    /\ h = Idle
    /\ reply = NoReply
    /\ lastRun = NoRun
    /\ autoHist = [u \in Users |-> "none"]
    /\ sleeps = <<>>
    /\ pass = NoPass
    /\ origin = NoOrigin

\* The steps of the handlers main() registers, for the users U, the argument
\* lists A of /auto, the reading commands cmds and the answers W of the web
HandlerNext(U, A, cmds, W) ==
    \/ AutoCmd(U, A)
    \/ StartCmd
    \/ RefreshCmd
    \/ ReadCmdBegin(cmds)
    \/ CmdNoticeSent
    \/ CmdFetchDone(W)
    \/ GenNoticeSent
    \/ CmdReplied
    \/ CmdReplyRaises

\* The steps of the background task
BgSteps(W) ==
    \/ BgStart
    \/ BgInitialUpdateDone(W)
    \/ BgWake
    \/ BgUpdateDone(W)
    \/ BgSendDone
    \/ BgErrorSleepDone

\* The background loop beside the handlers, three users who turn the
\* notifications on: the Google feed changes between runs, the other sources are
\* down.
Next == BgSteps(WebsNotify) \/ HandlerNext(Users, ArgsCmd, ReadCmds, WebsNotify)

Spec == Init /\ [][Next]_vars

\* The same, two users who turn the notifications on and off.
NextOptIn == BgSteps(WebsNotify) \/ HandlerNext(UsersLoop, ArgsNotify, ReadCmds, WebsNotify)

SpecOptIn == Init /\ [][NextOptIn]_vars

\* The same, two users who turn the notifications on, the feed changing by six
\* terms between runs.
NextLoop == BgSteps(WebsLoop) \/ HandlerNext(UsersLoop, ArgsCmd, ReadCmds, WebsLoop)

SpecLoop == Init /\ [][NextLoop]_vars

\* The handlers beside the background loop, one user: every source up or down at
\* each run.
NextCmd == BgSteps(WebsCmd) \/ HandlerNext(UsersCmd, ArgsCmd, ReadCmds, WebsCmd)

SpecCmd == Init /\ [][NextCmd]_vars

\* /auto and /start alone, on every argument list.
NextAuto ==
    \/ AutoCmd(Users, ArgLists)
    \/ StartCmd
    \/ CmdReplied
    \/ CmdReplyRaises

SpecAuto == Init /\ [][NextAuto]_vars

\* The start of the background task and its initial run of the aggregator, on the
\* outcomes of the requests and of the calls of print.
NextAgg == BgStart \/ BgInitialUpdateDone(WebsAgg)

SpecAgg == Init /\ [][NextAgg]_vars

----------------------------------------------------------------------------
(* Claims *)

\* C1 (as stated): a run of update_trending_data ends without raising whatever
\* subset of the fetchers failed or raised; it has stored the empty list for each
\* source whose fetcher raised and the returned list for each source whose fetcher
\* returned, and it has set last_update.
C1_SwallowsFailures ==
    lastRun.ran =>
        /\ ~lastRun.left
        /\ trending_cache.last_update \in Times
        /\ \A s \in Sources :
            trending_cache[s] = IF lastRun.raised[s] THEN <<>> ELSE lastRun.ret[s]

C2_ListsRead(cmd) ==
    CASE cmd = "trends"   -> {"google_trends"}
      [] cmd = "reddit"   -> {"reddit_trending"}
      [] cmd = "coins"    -> {"coingecko_trending"}
      [] cmd = "twitter"  -> {"twitter_trends"}
      [] cmd = "youtube"  -> {"youtube_trending"}
      [] cmd = "news"     -> {"crypto_news"}
      [] cmd = "all"      -> Sources
      [] cmd = "generate" -> {"google_trends", "reddit_trending", "youtube_trending",
                              "twitter_trends"}

\* C2 (as amended): a reading command runs the aggregator exactly when every cache
\* list its guard reads is empty at the invocation (first access, and any later
\* invocation that finds them empty again); otherwise it answers from the cache.
C2_FetchesWhenListsEmpty ==
    [][(h.pc = "idle" /\ h'.pc # "idle" /\ h'.cmd \in ReadCmds) =>
        ((h'.pc = "notice") <=> (\A s \in C2_ListsRead(h'.cmd) : trending_cache[s] = <<>>))]_vars

\* C2, witness: /twitter, invoked after a run has ended, is fetching again.
C2_Witness ==
    /\ h.cmd = "twitter"
    /\ h.seenRun
    /\ h.pc = "fetching"
    /\ trending_cache.last_update # NoTime

\* C2 (as stated): a reading command invoked after an aggregator run has ended
\* does not run the aggregator.
C2_FetchOnFirstAccessOnly ==
    (h.cmd \in ReadCmds /\ h.seenRun) => h.pc \notin {"notice", "fetching"}

\* C3 (as stated): when a notification pass ends, every user whose auto_notify was
\* on when it began (and who has not turned it off since) has been sent the
\* notification.
C3_EveryOptedInUserNotified ==
    [][(pass.active /\ ~pass'.active) => pass.opted \subseteq pass.sent]_vars

C4_Sends == bg'.pc = "sending" /\ (bg.pc # "sending" \/ bg'.idx # bg.idx)

\* C4: whenever the loop sends to a user, that user's most recent valid /auto was
\* /auto on (so a user who never issued one, or whose last was off, is not sent to).
C4_OnlyOptedInNotified ==
    [][C4_Sends => autoHist[user_preferences[bg'.idx].user] = "on"]_vars

\* C4, witness: the loop is sending to a user after passing over a user whose last
\* /auto was off, while another user has never issued /auto.
C4_Witness ==
    /\ bg.pc = "sending"
    /\ \E i \in 1..(bg.idx - 1) :
        /\ autoHist[user_preferences[i].user] = "off"
        /\ user_preferences[i].user \notin pass.sent
    /\ \E u \in Users : autoHist[u] = "none" /\ u \notin pass.sent

\* C5 (as stated): between the end of one background run and the start of the
\* next the loop sleeps 1800 seconds once and does not sleep otherwise.
C5_OneSleepBetweenRuns == bg.pc = "updating" => sleeps = <<1800>>

\* C6 (as stated): no exception raised inside an iteration of the loop ends the
\* loop.
C6_NoExceptionEndsLoop == bg.pc # "ended_loop"

C7_IsOn(a) == a \in {"on", "On", "oN", "ON"}

C7_IsOff(a) == a \in {"off", "Off", "oFf", "ofF", "OFf", "OfF", "oFF", "OFF"}

C7_SameFor(v) ==
    /\ HasUser(user_preferences', v) = HasUser(user_preferences, v)
    /\ AutoOn(user_preferences', v) = AutoOn(user_preferences, v)

\* C7: /auto with one argument that is on or off in any case sets the caller's
\* auto_notify accordingly and leaves every other user's entry as it was; with any
\* other arguments it replies with the usage and leaves user_preferences unchanged.
C7_AutoFrame ==
    [][(h.pc = "idle" /\ h'.cmd = "auto") =>
        IF Len(h'.args) = 1 /\ (C7_IsOn(h'.args[1]) \/ C7_IsOff(h'.args[1]))
        THEN /\ HasUser(user_preferences', h'.user)
             /\ AutoOn(user_preferences', h'.user) = C7_IsOn(h'.args[1])
             /\ reply'.kind = (IF C7_IsOn(h'.args[1]) THEN "enabled" ELSE "disabled")
             /\ \A v \in Users \ {h'.user} : C7_SameFor(v)
        ELSE /\ reply'.kind = "usage"
             /\ user_preferences' = user_preferences]_vars

\* C7, witness: /auto ON has turned a user's notifications on while another user's
\* entry says off.
C7_Witness ==
    /\ h.cmd = "auto"
    /\ h.args = <<"ON">>
    /\ AutoOn(user_preferences, h.user)
    /\ \E v \in Users \ {h.user} : HasUser(user_preferences, v) /\ ~AutoOn(user_preferences, v)

C8_First(is, otherwise) ==
    IF is = {} THEN otherwise ELSE CHOOSE i \in is : \A j \in is : i <= j

\* The first instance that answers 200 with a trend, 3 when none does
C8_FirstAnswering(w) ==
    C8_First({i \in 1..3 : Ok200(w.twitter[i]) /\ w.twitter[i].body # <<>>}, 3)

\* The request at which the Reddit fetcher ends its loop: the first that raised
\* with the print of the inner handler raising in that pass, else the last.
C8_RedditStop(w) ==
    C8_First({i \in 1..3 : w.reddit[i].exc /\ <<169, i>> \in w.print_raises}, 3)

\* The request at which the Twitter fetcher ends its loop: the first whose trends it
\* returns (an answer of 200 with a trend, and the print of line 76 printing), or
\* after which the print of the inner handler raises, else the last.
C8_TwitterStop(w) ==
    LET answers(i) == Ok200(w.twitter[i]) /\ w.twitter[i].body # <<>>
        caught(i)  == w.twitter[i].exc \/ (answers(i) /\ <<76, i>> \in w.print_raises)
    IN  C8_First({i \in 1..3 : \/ answers(i) /\ ~caught(i)
                               \/ caught(i) /\ <<79, i>> \in w.print_raises}, 3)

\* C8 (as amended): the Google, YouTube, CoinGecko and news fetchers issue one
\* request; the Reddit fetcher issues one per subreddit in the listed order, and
\* the Twitter fetcher one per instance in the listed order, at most three each.
\* The Reddit fetcher issues all three unless the print of its inner handler raises
\* after a request raised, which ends the loop there; the Twitter fetcher goes on
\* until it returns the trends of an instance, or the print of its inner handler
\* raises, or the instances are exhausted.  With every print printing these are
\* three requests and the requests up to the first instance answering with a trend.
C8_RequestsPerFetcher ==
    lastRun.ran =>
        /\ \A s \in {"google_trends", "youtube_trending", "coingecko_trending", "crypto_news"} :
            lastRun.reqs[s] = 1
        /\ lastRun.reqs["reddit_trending"] = C8_RedditStop(lastRun.web)
        /\ lastRun.reqs["twitter_trends"] = C8_TwitterStop(lastRun.web)
        /\ lastRun.reqs["twitter_trends"] = Len(lastRun.tried)
        /\ lastRun.tried = SubSeq(nitter_instances, 1, Len(lastRun.tried))
        /\ lastRun.web.print_raises \cap RedditPrints = {} => lastRun.reqs["reddit_trending"] = 3
        /\ lastRun.web.print_raises \cap TwitterPrints = {} =>
               lastRun.reqs["twitter_trends"] = C8_FirstAnswering(lastRun.web)

\* C8, witness: the Twitter fetcher stopped at its second instance.
C8_Witness ==
    /\ lastRun.ran
    /\ lastRun.reqs["twitter_trends"] = 2
    /\ ~lastRun.raised["twitter_trends"]
    /\ lastRun.reqs["reddit_trending"] = 3
    /\ trending_cache.twitter_trends = TwB

\* C8 (as stated): no fetcher issues more than one request.
C8_AtMostOneRequest == lastRun.ran => \A s \in Sources : lastRun.reqs[s] <= 1

\* C9: a message is in flight only in a cycle whose refresh cached a Google term
\* that was not cached before it; it lists at most 5 terms, each cached after the
\* refresh and not before.
C9_MessageListsFreshTerms ==
    /\ bg.msg # {} => bg.pc = "sending"
    /\ bg.pc = "sending" =>
        /\ origin.google_trends = "bg" => bg.new_trends = Range(trending_cache.google_trends)
        /\ bg.new_trends \ bg.old_trends # {}
        /\ bg.msg # {}
        /\ Cardinality(bg.msg) <= 5
        /\ bg.msg \subseteq bg.new_trends
        /\ bg.msg \cap bg.old_trends = {}

\* C9, witness: a message of 5 terms in a cycle with 6 new terms.
C9_Witness ==
    /\ bg.pc = "sending"
    /\ Cardinality(bg.new_trends \ bg.old_trends) = 6
    /\ Cardinality(bg.msg) = 5

C10_Take(lst, n, src) == [i \in 1..Min(n, Len(lst)) |-> [trend |-> lst[i], source |-> src]]

C10_Expected(c) ==
    C10_Take(c.twitter_trends, 2, "Twitter") \o C10_Take(c.youtube_trending, 2, "YouTube")
    \o C10_Take(c.google_trends, 2, "Google")

\* The first three words of the title of each post that comes first in the Reddit
\* list, joined by single spaces, as Python gives them
C10_FirstThreeWords(title) ==
    CASE title = "Bitcoin ETF inflows" -> "Bitcoin ETF inflows"
      [] title = Posts4[1].title -> "Pepe coin to"
      [] title = Posts5[1].title -> ""

\* C10: /generate lists the concepts of at most 2 Twitter, 2 YouTube and 2 Google
\* entries and 1 Reddit post (of its title the first three words), in this order,
\* never more than 7; it replies that no trends are available exactly when these
\* four lists are empty.
C10_GenerateOrderAndCounts ==
    [][(h.pc = "gen_notice" /\ h'.pc = "replying") =>
        LET c == trending_cache
            first == C10_Expected(c)
            n == Len(first) + (IF c.reddit_trending = <<>> THEN 0 ELSE 1)
        IN  /\ (reply'.kind = "no_trends") <=>
                   (/\ c.twitter_trends = <<>> /\ c.youtube_trending = <<>>
                    /\ c.google_trends = <<>> /\ c.reddit_trending = <<>>)
            /\ reply'.kind \in {"no_trends", "concepts"}
            /\ reply'.kind = "concepts" =>
                /\ Len(reply'.items) = n
                /\ n <= 7
                /\ SubSeq(reply'.items, 1, Len(first)) = first
                /\ \A i \in (Len(first) + 1)..n :
                    reply'.items[i] =
                        [trend  |-> C10_FirstThreeWords(c.reddit_trending[1].title),
                         source |-> "Reddit"]]_vars

\* C10, witness: /generate has replied that no trends are available while the
\* CoinGecko and news lists hold entries.
C10_Witness ==
    /\ h.cmd = "generate"
    /\ reply.kind = "no_trends"
    /\ trending_cache.coingecko_trending # <<>>
    /\ trending_cache.crypto_news # <<>>
    /\ trending_cache.twitter_trends = <<>>

\* Whether the feed request of fetch_google_trends failed: it raised, answered a
\* status other than 200, or its body holds at most one title match.
C11_FeedFailed(r) == r.exc \/ r.status # 200 \/ Len(r.body) <= 1

\* C11 (as stated): fetch_google_trends never raises and returns a list of 1 to 10
\* items, the fallback list whenever the feed request failed.
C11_GoogleNeverRaises ==
    lastRun.ran =>
        LET ret == lastRun.ret["google_trends"]
        IN  /\ ~lastRun.raised["google_trends"]
            /\ Len(ret) >= 1 /\ Len(ret) <= 10
            /\ C11_FeedFailed(lastRun.web.google) => ret = fallback_trends

\* The first instance, in the listed order, that answers 200 with a trend; 0 when
\* none does.
C12_FirstHit(rs) ==
    LET hits == {i \in 1..Len(nitter_instances) :
                    ~rs[i].exc /\ rs[i].status = 200 /\ Len(rs[i].body) >= 1}
    IN  IF hits = {} THEN 0 ELSE CHOOSE i \in hits : \A j \in hits : i <= j

\* What C12 states of a run: the instances requested are the listed ones, in order,
\* up to and including the first that answers 200 with a trend, whose first 10
\* trends are returned; all are requested and the empty list is returned exactly
\* when each one raised, answered another status or held no trend.
C12_OrderAndFirstHit ==
    LET rs  == lastRun.web.twitter
        ret == lastRun.ret["twitter_trends"]
        k   == C12_FirstHit(rs)
    IN  /\ ~lastRun.raised["twitter_trends"]
        /\ nitter_instances = <<"https://nitter.net", "https://nitter.privacydev.net",
                                "https://nitter.poast.org">>
        /\ lastRun.tried = SubSeq(nitter_instances, 1, Len(lastRun.tried))
        /\ Len(lastRun.tried) = (IF k = 0 THEN Len(nitter_instances) ELSE k)
        /\ (ret = <<>>) <=> (k = 0)
        /\ k # 0 =>
            /\ Len(ret) = Min(10, Len(rs[k].body))
            /\ ret = SubSeq(rs[k].body, 1, Len(ret))

\* C12 (as stated): in every run the Twitter fetcher moves on to the next instance
\* after one that raised, and returns the trends of the first that answers.
C12_TwitterInstanceOrder == lastRun.ran => C12_OrderAndFirstHit

\* C13: in every state between two awaits, which are the states a handler or the
\* background loop can observe, the six lists and last_update of trending_cache are
\* those one aggregator run stored, the run that ended last; before any run has
\* ended they are the initial empty lists and None.
C13_CacheFromOneRun ==
    IF ~lastRun.ran
    THEN /\ trending_cache = EmptyCache
         /\ \A k \in CacheKeys : origin[k] = "none"
    ELSE /\ \A k \in CacheKeys : origin[k] = lastRun.by
         /\ trending_cache.last_update \in Times
         /\ trending_cache = CacheAfter(lastRun.web, trending_cache.last_update)

\* C13, witness: two runs overlapped and both have ended.  /trends began while the
\* initial update of the background task was in flight, no run having ended; its
\* own run ended first and it built its reply from it; the background run then
\* replaced the cache with other results while the handler was sending its reply.
C13_Witness ==
    /\ h.cmd = "trends" /\ h.pc = "replying" /\ h.fetched /\ ~h.seenRun
    /\ lastRun.by = "bg"
    /\ ~InFlight("bg")
    /\ reply # FinalReply("trends", trending_cache)

====
